---- MODULE Spec2Model ----
(***************************************************************************)
(* Celestia stellar classification (src/src/celengine/stellarclass.cpp):   *)
(* the 16-bit V1/V2 catalogue encodings, the canonical renderer str() and  *)
(* the spectral-type parser, modelled as a state machine over one          *)
(* StellarClass object, one catalogue word and one text buffer; and the    *)
(* JPL ephemeris reader (jpleph.cpp, kept in src/src/celengine/name.h):    *)
(* JPLEphemeris::load on a byte stream and getPlanetPosition called by     *)
(* two callers on the object load() returned.                              *)
(***************************************************************************)
EXTENDS Integers, Sequences, FiniteSets, TLC

(***************************************************************************)
(* Enumerations of stellarclass.h.  The ordinals of the normal-star        *)
(* classes are the indices of the letter table used by str().              *)
(***************************************************************************)
NormalStar  == 0
WhiteDwarf  == 1
NeutronStar == 2
BlackHole   == 3

Spectral_O       == 0
Spectral_B       == 1
Spectral_A       == 2
Spectral_F       == 3
Spectral_G       == 4
Spectral_K       == 5
Spectral_M       == 6
Spectral_R       == 7
Spectral_S       == 8
Spectral_N       == 9
Spectral_WC      == 10
Spectral_WN      == 11
Spectral_Unknown == 12
Spectral_L       == 13
Spectral_T       == 14
Spectral_Y       == 15
Spectral_C       == 16
Spectral_DA      == 17
Spectral_DB      == 18
Spectral_DC      == 19
Spectral_DO      == 20
Spectral_DQ      == 21
Spectral_DZ      == 22
Spectral_D       == 23
Spectral_DX      == 24
Spectral_WO      == 25
Spectral_Q       == 26
Spectral_QN      == 27
Spectral_QP      == 28
Spectral_QM      == 29
Spectral_Count   == 30

WDClassCount          == 8
NeutronStarClassCount == 4
Subclass_Unknown      == 10

Lum_Ia0     == 0
Lum_Ia      == 1
Lum_Ib      == 2
Lum_II      == 3
Lum_III     == 4
Lum_IV      == 5
Lum_V       == 6
Lum_VI      == 7
Lum_Unknown == 8
Lum_Count   == 9

StarTypes == {NormalStar, WhiteDwarf, NeutronStar, BlackHole}

\* The letter classes the parser's NormalStarClassState recognises.
LetterClasses ==
    {Spectral_O, Spectral_B, Spectral_A, Spectral_F, Spectral_G, Spectral_K,
     Spectral_M, Spectral_R, Spectral_S, Spectral_N, Spectral_L, Spectral_T,
     Spectral_Y, Spectral_C}

WolfRayetClasses == {Spectral_WC, Spectral_WN, Spectral_WO}

\* The spectral-class family of each star type (data model).
WDClasses == Spectral_DA .. Spectral_DX

NSClasses == Spectral_Q .. Spectral_QM

NormalClasses == LetterClasses \cup WolfRayetClasses \cup {Spectral_Unknown}

FamilyOf(t) ==
    CASE t = NormalStar  -> NormalClasses
      [] t = WhiteDwarf  -> WDClasses
      [] t = NeutronStar -> NSClasses
      [] OTHER           -> {Spectral_Unknown}

Subclasses == 0 .. Subclass_Unknown

LumClasses == 0 .. Lum_Unknown

\* StellarClass(t, sc, sub, lum): the four-field value object.
StellarClass(t, s, sub, lum) ==
    [starType |-> t, specClass |-> s, subclass |-> sub, lumClass |-> lum]

\* The default-constructed object.
DefaultClass ==
    StellarClass(NormalStar, Spectral_Unknown, Subclass_Unknown, Lum_Unknown)

(***************************************************************************)
(* 16-bit arithmetic.                                                      *)
(***************************************************************************)
U16 == 65536

RECURSIVE BitOr(_, _)
BitOr(a, b) ==
    IF a = 0 THEN b
    ELSE IF b = 0 THEN a
    ELSE (IF (a % 2 = 1) \/ (b % 2 = 1) THEN 1 ELSE 0)
         + 2 * BitOr(a \div 2, b \div 2)

\* st >> n & mask, for a mask of the low bits (mask + 1 a power of two).
Field(st, shift, mask) == (st \div (2 ^ shift)) % (mask + 1)

(***************************************************************************)
(* StellarClass::packV1 - catalogue version 0x0100, no Spectral_Y.         *)
(***************************************************************************)
\* packV1 without the special case for Spectral_Y.
packV1_KeepY(c) ==
    LET sc == (IF c.specClass > Spectral_Y
                 THEN c.specClass - 1
                 ELSE c.specClass) % U16
    IN  BitOr(BitOr((c.starType % U16) * (2 ^ 12), (sc % 16) * (2 ^ 8)),
              BitOr((c.subclass % U16) * (2 ^ 4), c.lumClass % U16)) % U16

packV1(c) ==
    LET sc == IF c.specClass = Spectral_Y
                THEN Spectral_Unknown
                ELSE (IF c.specClass > Spectral_Y
                        THEN c.specClass - 1
                        ELSE c.specClass) % U16
    IN  BitOr(BitOr((c.starType % U16) * (2 ^ 12), (sc % 16) * (2 ^ 8)),
              BitOr((c.subclass % U16) * (2 ^ 4), c.lumClass % U16)) % U16

(***************************************************************************)
(* StellarClass::packV2.  The star type is shifted by 18 in int            *)
(* arithmetic and the result is then narrowed to uint16_t.                 *)
(***************************************************************************)
packV2(c) ==
    LET sc == (IF c.starType = WhiteDwarf
                 THEN c.specClass - 1
                 ELSE c.specClass) % U16
    IN  BitOr(BitOr((c.starType % U16) * (2 ^ 18), (sc % 32) * (2 ^ 8)),
              BitOr((c.subclass % 16) * (2 ^ 4), c.lumClass % 16)) % U16

(***************************************************************************)
(* StellarClass::unpackV1 and unpackV2 applied to the object self: the     *)
(* result is the return value and the object as the call leaves it (a      *)
(* failed call has already overwritten starType).                          *)
(***************************************************************************)
unpackV1(self, st) ==
    LET t == st \div (2 ^ 13)
        typed == [self EXCEPT !.starType = t]
    IN  CASE t = NormalStar ->
               LET raw == Field(st, 8, 15)
               IN  [ok |-> TRUE,
                    sc |-> StellarClass(t,
                               IF raw = Spectral_Y THEN Spectral_C ELSE raw,
                               Field(st, 4, 15), Field(st, 0, 15))]
          [] t = WhiteDwarf ->
               IF Field(st, 8, 15) >= WDClassCount
                 THEN [ok |-> FALSE, sc |-> typed]
                 ELSE [ok |-> TRUE,
                       sc |-> StellarClass(t, Field(st, 8, 15) + Spectral_DA,
                                  Field(st, 4, 15), Lum_Unknown)]
          [] t = NeutronStar ->
               IF Field(st, 4, 15) >= NeutronStarClassCount
                 THEN [ok |-> FALSE, sc |-> typed]
                 ELSE [ok |-> TRUE,
                       sc |-> StellarClass(t, Field(st, 4, 15) + Spectral_Q,
                                  Field(st, 4, 15), Lum_Unknown)]
          [] t = BlackHole ->
               [ok |-> TRUE,
                sc |-> StellarClass(t, Spectral_Unknown, Subclass_Unknown,
                           Lum_Unknown)]
          [] OTHER -> [ok |-> FALSE, sc |-> typed]

\* unpackV2 without the range check of the WhiteDwarf class field.
unpackV2_NoWDCheck(self, st) ==
    LET t == st \div (2 ^ 13)
        typed == [self EXCEPT !.starType = t]
    IN  CASE t = NormalStar ->
               [ok |-> TRUE,
                sc |-> StellarClass(t, Field(st, 8, 31), Field(st, 4, 15),
                           Field(st, 0, 15))]
          [] t = WhiteDwarf ->
               [ok |-> TRUE,
                sc |-> StellarClass(t, Field(st, 8, 15) + Spectral_DA,
                           Field(st, 4, 15), Lum_Unknown)]
          [] t = NeutronStar ->
               IF Field(st, 4, 15) >= NeutronStarClassCount
                 THEN [ok |-> FALSE, sc |-> typed]
                 ELSE [ok |-> TRUE,
                       sc |-> StellarClass(t, Field(st, 4, 15) + Spectral_Q,
                                  Field(st, 4, 15), Lum_Unknown)]
          [] t = BlackHole ->
               [ok |-> TRUE,
                sc |-> StellarClass(t, Spectral_Unknown, Subclass_Unknown,
                           Lum_Unknown)]
          [] OTHER -> [ok |-> FALSE, sc |-> typed]

\* unpackV2 with the BlackHole case decoding the fields as a NormalStar's.
unpackV2_BlackHoleFields(self, st) ==
    LET t == st \div (2 ^ 13)
        typed == [self EXCEPT !.starType = t]
    IN  CASE t \in {NormalStar, BlackHole} ->
               [ok |-> TRUE,
                sc |-> StellarClass(t, Field(st, 8, 31), Field(st, 4, 15),
                           Field(st, 0, 15))]
          [] t = WhiteDwarf ->
               IF Field(st, 8, 15) >= WDClassCount
                 THEN [ok |-> FALSE, sc |-> typed]
                 ELSE [ok |-> TRUE,
                       sc |-> StellarClass(t, Field(st, 8, 15) + Spectral_DA,
                                  Field(st, 4, 15), Lum_Unknown)]
          [] t = NeutronStar ->
               IF Field(st, 4, 15) >= NeutronStarClassCount
                 THEN [ok |-> FALSE, sc |-> typed]
                 ELSE [ok |-> TRUE,
                       sc |-> StellarClass(t, Field(st, 4, 15) + Spectral_Q,
                                  Field(st, 4, 15), Lum_Unknown)]
          [] OTHER -> [ok |-> FALSE, sc |-> typed]

unpackV2(self, st) ==
    LET t == st \div (2 ^ 13)
        typed == [self EXCEPT !.starType = t]
    IN  CASE t = NormalStar ->
               [ok |-> TRUE,
                sc |-> StellarClass(t, Field(st, 8, 31), Field(st, 4, 15),
                           Field(st, 0, 15))]
          [] t = WhiteDwarf ->
               IF Field(st, 8, 15) >= WDClassCount
                 THEN [ok |-> FALSE, sc |-> typed]
                 ELSE [ok |-> TRUE,
                       sc |-> StellarClass(t, Field(st, 8, 15) + Spectral_DA,
                                  Field(st, 4, 15), Lum_Unknown)]
          [] t = NeutronStar ->
               IF Field(st, 4, 15) >= NeutronStarClassCount
                 THEN [ok |-> FALSE, sc |-> typed]
                 ELSE [ok |-> TRUE,
                       sc |-> StellarClass(t, Field(st, 4, 15) + Spectral_Q,
                                  Field(st, 4, 15), Lum_Unknown)]
          [] t = BlackHole ->
               [ok |-> TRUE,
                sc |-> StellarClass(t, Spectral_Unknown, Subclass_Unknown,
                           Lum_Unknown)]
          [] OTHER -> [ok |-> FALSE, sc |-> typed]

(***************************************************************************)
(* operator<(sc0, sc1): the order of the V2 words.                         *)
(***************************************************************************)
\* operator< comparing with <= instead of <.
LessThan_OrEqual(sc0, sc1) == packV2(sc0) <= packV2(sc1)

LessThan(sc0, sc1) == packV2(sc0) < packV2(sc1)

(***************************************************************************)
(* Characters are one-letter strings; NUL is the '\0' that terminates a C  *)
(* string literal and that parse() substitutes past the end of its input.  *)
(***************************************************************************)
NUL == "NUL"

Digits == {"0", "1", "2", "3", "4", "5", "6", "7", "8", "9"}

DigitString == <<"0", "1", "2", "3", "4", "5", "6", "7", "8", "9">>

\* (unsigned int) c - (unsigned int) '0' for a digit c.
DigitValue(c) == CHOOSE d \in 0 .. 9 : DigitString[d + 1] = c

\* Every character the renderer can emit or the parser tests for, and "z"
\* for a character that no case of the parser names.
Alphabet ==
    Digits \cup
    {"O", "B", "A", "F", "G", "K", "M", "R", "S", "N", "W", "L", "T", "Y",
     "C", "D", "Q", "X", "Z", "P", "H", "E", "I", "V", "a", "b", "s", "d",
     "-", ".", " ", "?", "z"}

\* "OBAFGKMRSNWW?LTYC"
SpectralLetters ==
    <<"O", "B", "A", "F", "G", "K", "M", "R", "S", "N", "W", "W", "?", "L",
      "T", "Y", "C">>

\* literal[index] for a string literal: a character of the literal, its
\* terminating NUL, or (out of bounds) whatever byte follows it in memory.
CharAt(literal, index) ==
    IF index < Len(literal) THEN {literal[index + 1]}
    ELSE IF index = Len(literal) THEN {NUL}
    ELSE Alphabet \cup {NUL}

\* The luminosity suffixes without their leading space.
LumSuffix_NoSpace(lum) ==
    CASE lum = Lum_Ia0 -> <<"I", "-", "a", "0">>
      [] lum = Lum_Ia  -> <<"I", "-", "a">>
      [] lum = Lum_Ib  -> <<"I", "-", "b">>
      [] lum = Lum_II  -> <<"I", "I">>
      [] lum = Lum_III -> <<"I", "I", "I">>
      [] lum = Lum_IV  -> <<"I", "V">>
      [] lum = Lum_V   -> <<"V">>
      [] lum = Lum_VI  -> <<"V", "I">>
      [] OTHER         -> << >>

LumSuffix(lum) ==
    CASE lum = Lum_Ia0 -> <<" ", "I", "-", "a", "0">>
      [] lum = Lum_Ia  -> <<" ", "I", "-", "a">>
      [] lum = Lum_Ib  -> <<" ", "I", "-", "b">>
      [] lum = Lum_II  -> <<" ", "I", "I">>
      [] lum = Lum_III -> <<" ", "I", "I", "I">>
      [] lum = Lum_IV  -> <<" ", "I", "V">>
      [] lum = Lum_V   -> <<" ", "V">>
      [] lum = Lum_VI  -> <<" ", "V", "I">>
      [] OTHER         -> << >>

(***************************************************************************)
(* StellarClass::str: the set of strings the call can return (one string   *)
(* unless a table is indexed out of bounds).  The WhiteDwarf and           *)
(* NeutronStar cases have no break or return and run on into the BlackHole *)
(* case.                                                                   *)
(***************************************************************************)
Str(c) ==
    CASE c.starType \in {WhiteDwarf, NeutronStar, BlackHole} -> {<<"X">>}
      [] c.starType = NormalStar ->
           {<<s0, s1>> \o LumSuffix(c.lumClass) :
              s0 \in CharAt(SpectralLetters, c.specClass),
              s1 \in CharAt(DigitString, c.subclass)}
      [] OTHER -> {<<"?">>}

(***************************************************************************)
(* The parser of StellarClass::parse.  p holds the locals of the call      *)
(* (i, state, starType, specClass, lumClass, subclass); each Case operator *)
(* is one case of the switch on the state, applied to the character c that *)
(* the loop read at index i.                                               *)
(***************************************************************************)
BeginState == "BeginState"

EndState == "EndState"

NormalStarState == "NormalStarState"

WolfRayetTypeState == "WolfRayetTypeState"

NormalStarClassState == "NormalStarClassState"

NormalStarSubclassState == "NormalStarSubclassState"

NormalStarSubclassDecimalState == "NormalStarSubclassDecimalState"

NormalStarSubclassFinalState == "NormalStarSubclassFinalState"

LumClassBeginState == "LumClassBeginState"

LumClassIState == "LumClassIState"

LumClassIIState == "LumClassIIState"

LumClassVState == "LumClassVState"

LumClassIdashState == "LumClassIdashState"

LumClassIaState == "LumClassIaState"

WDTypeState == "WDTypeState"

WDExtendedTypeState == "WDExtendedTypeState"

WDSubclassState == "WDSubclassState"

NeutronStarTypeState == "NeutronStarTypeState"

NeutronStarExtendedTypeState == "NeutronStarExtendedTypeState"

NeutronStarSubclassState == "NeutronStarSubclassState"

SubdwarfPrefixState == "SubdwarfPrefixState"

ParseStates ==
    {BeginState, EndState, NormalStarState, WolfRayetTypeState,
     NormalStarClassState, NormalStarSubclassState,
     NormalStarSubclassDecimalState, NormalStarSubclassFinalState,
     LumClassBeginState, LumClassIState, LumClassIIState, LumClassVState,
     LumClassIdashState, LumClassIaState, WDTypeState, WDExtendedTypeState,
     WDSubclassState, NeutronStarTypeState, NeutronStarExtendedTypeState,
     NeutronStarSubclassState, SubdwarfPrefixState}

\* The locals of parse() as initialised before the loop.
ParseLocals ==
    [i |-> 0, state |-> BeginState, starType |-> NormalStar,
     specClass |-> Spectral_Unknown, lumClass |-> Lum_Unknown,
     subclass |-> Subclass_Unknown]

\* c = st[i] if i < st.length(), else '\0'.
\* A read one character ahead of the index.
CurrentChar_Ahead(st, i) == IF i + 1 < Len(st) THEN st[i + 2] ELSE NUL

CurrentChar(st, i) == IF i < Len(st) THEN st[i + 1] ELSE NUL

CaseBeginState(p, c) ==
    CASE c = "Q" -> [p EXCEPT !.starType = NeutronStar,
                              !.specClass = Spectral_Q,
                              !.state = NeutronStarTypeState]
      [] c = "X" -> [p EXCEPT !.starType = BlackHole, !.state = EndState]
      [] c = "D" -> [p EXCEPT !.starType = WhiteDwarf,
                              !.specClass = Spectral_D,
                              !.state = WDTypeState, !.i = p.i + 1]
      [] c = "s" -> [p EXCEPT !.state = SubdwarfPrefixState, !.i = p.i + 1]
      [] c = "?" -> [p EXCEPT !.state = EndState]
      [] OTHER   -> [p EXCEPT !.state = NormalStarClassState]

CaseWolfRayetTypeState(p, c) ==
    CASE c = "C" -> [p EXCEPT !.specClass = Spectral_WC,
                              !.state = NormalStarSubclassState,
                              !.i = p.i + 1]
      [] c = "N" -> [p EXCEPT !.specClass = Spectral_WN,
                              !.state = NormalStarSubclassState,
                              !.i = p.i + 1]
      [] c = "O" -> [p EXCEPT !.specClass = Spectral_WO,
                              !.state = NormalStarSubclassState,
                              !.i = p.i + 1]
      [] OTHER   -> [p EXCEPT !.specClass = Spectral_WC,
                              !.state = NormalStarSubclassState]

\* SubdwarfPrefixState handing "sd" back to BeginState.
CaseSubdwarfPrefixState_ToBegin(p, c) ==
    IF c = "d"
      THEN [p EXCEPT !.lumClass = Lum_VI, !.state = BeginState,
                     !.i = p.i + 1]
      ELSE [p EXCEPT !.state = EndState]

\* SubdwarfPrefixState without the assignment of Lum_VI.
CaseSubdwarfPrefixState_KeepLum(p, c) ==
    IF c = "d"
      THEN [p EXCEPT !.state = NormalStarClassState, !.i = p.i + 1]
      ELSE [p EXCEPT !.state = EndState]

CaseSubdwarfPrefixState(p, c) ==
    IF c = "d"
      THEN [p EXCEPT !.lumClass = Lum_VI, !.state = NormalStarClassState,
                     !.i = p.i + 1]
      ELSE [p EXCEPT !.state = EndState]

CaseNormalStarClassState(p, c) ==
    LET q == CASE c = "W" -> [p EXCEPT !.state = WolfRayetTypeState]
           [] c = "O" -> [p EXCEPT !.specClass = Spectral_O,
                                  !.state = NormalStarSubclassState]
           [] c = "B" -> [p EXCEPT !.specClass = Spectral_B,
                                  !.state = NormalStarSubclassState]
           [] c = "A" -> [p EXCEPT !.specClass = Spectral_A,
                                  !.state = NormalStarSubclassState]
           [] c = "F" -> [p EXCEPT !.specClass = Spectral_F,
                                  !.state = NormalStarSubclassState]
           [] c = "G" -> [p EXCEPT !.specClass = Spectral_G,
                                  !.state = NormalStarSubclassState]
           [] c = "K" -> [p EXCEPT !.specClass = Spectral_K,
                                  !.state = NormalStarSubclassState]
           [] c = "M" -> [p EXCEPT !.specClass = Spectral_M,
                                  !.state = NormalStarSubclassState]
           [] c = "R" -> [p EXCEPT !.specClass = Spectral_R,
                                  !.state = NormalStarSubclassState]
           [] c = "S" -> [p EXCEPT !.specClass = Spectral_S,
                                  !.state = NormalStarSubclassState]
           [] c = "N" -> [p EXCEPT !.specClass = Spectral_N,
                                  !.state = NormalStarSubclassState]
           [] c = "L" -> [p EXCEPT !.specClass = Spectral_L,
                                  !.state = NormalStarSubclassState]
           [] c = "T" -> [p EXCEPT !.specClass = Spectral_T,
                                  !.state = NormalStarSubclassState]
           [] c = "Y" -> [p EXCEPT !.specClass = Spectral_Y,
                                  !.state = NormalStarSubclassState]
           [] c = "C" -> [p EXCEPT !.specClass = Spectral_C,
                                  !.state = NormalStarSubclassState]
               [] OTHER   -> [p EXCEPT !.state = EndState]
    IN  [q EXCEPT !.i = p.i + 1]

CaseNormalStarSubclassState(p, c) ==
    IF c \in Digits
      THEN [p EXCEPT !.subclass = DigitValue(c),
                     !.state = NormalStarSubclassDecimalState,
                     !.i = p.i + 1]
      ELSE [p EXCEPT !.state = LumClassBeginState]

CaseNormalStarSubclassDecimalState(p, c) ==
    IF c = "."
      THEN [p EXCEPT !.state = NormalStarSubclassFinalState, !.i = p.i + 1]
      ELSE [p EXCEPT !.state = LumClassBeginState]

\* NormalStarSubclassFinalState going on to the luminosity class whatever
\* follows the dot.
CaseNormalStarSubclassFinalState_GoOn(p, c) ==
    [p EXCEPT !.state = LumClassBeginState, !.i = p.i + 1]

CaseNormalStarSubclassFinalState(p, c) ==
    [p EXCEPT !.state = IF c \in Digits THEN LumClassBeginState ELSE EndState,
              !.i = p.i + 1]

CaseLumClassBeginState(p, c) ==
    [p EXCEPT !.state = CASE c = "I" -> LumClassIState
                          [] c = "V" -> LumClassVState
                          [] OTHER   -> EndState,
              !.i = p.i + 1]

\* LumClassIState without the i++ that follows its switch.
CaseLumClassIState_NoAdvance(p, c) ==
    CASE c = "I" -> [p EXCEPT !.state = LumClassIIState]
      [] c = "V" -> [p EXCEPT !.lumClass = Lum_IV, !.state = EndState]
      [] c = "a" -> [p EXCEPT !.state = LumClassIaState]
      [] c = "b" -> [p EXCEPT !.lumClass = Lum_Ib, !.state = EndState]
      [] c = "-" -> [p EXCEPT !.state = LumClassIdashState]
      [] OTHER   -> [p EXCEPT !.lumClass = Lum_Ib, !.state = EndState]

CaseLumClassIState(p, c) ==
    LET q == CASE c = "I" -> [p EXCEPT !.state = LumClassIIState]
               [] c = "V" -> [p EXCEPT !.lumClass = Lum_IV,
                                       !.state = EndState]
               [] c = "a" -> [p EXCEPT !.state = LumClassIaState]
               [] c = "b" -> [p EXCEPT !.lumClass = Lum_Ib,
                                       !.state = EndState]
               [] c = "-" -> [p EXCEPT !.state = LumClassIdashState]
               [] OTHER   -> [p EXCEPT !.lumClass = Lum_Ib,
                                       !.state = EndState]
    IN  [q EXCEPT !.i = p.i + 1]

CaseLumClassIIState(p, c) ==
    IF c = "I"
      THEN [p EXCEPT !.lumClass = Lum_III, !.state = EndState]
      ELSE [p EXCEPT !.lumClass = Lum_II, !.state = EndState]

CaseLumClassIdashState(p, c) ==
    CASE c = "a" -> [p EXCEPT !.state = LumClassIaState]
      [] c = "b" -> [p EXCEPT !.lumClass = Lum_Ib, !.state = EndState]
      [] OTHER   -> [p EXCEPT !.lumClass = Lum_Ib, !.state = EndState]

CaseLumClassIaState(p, c) ==
    IF c = "0"
      THEN [p EXCEPT !.lumClass = Lum_Ia0, !.state = EndState]
      ELSE [p EXCEPT !.lumClass = Lum_Ia, !.state = EndState]

CaseLumClassVState(p, c) ==
    IF c = "I"
      THEN [p EXCEPT !.lumClass = Lum_VI, !.state = EndState]
      ELSE [p EXCEPT !.lumClass = Lum_V, !.state = EndState]

CaseWDTypeState(p, c) ==
    CASE
         c = "A" -> [p EXCEPT !.specClass = Spectral_DA, !.i = p.i + 1,
                            !.state = WDExtendedTypeState]
      [] c = "B" -> [p EXCEPT !.specClass = Spectral_DB, !.i = p.i + 1,
                            !.state = WDExtendedTypeState]
      [] c = "C" -> [p EXCEPT !.specClass = Spectral_DC, !.i = p.i + 1,
                            !.state = WDExtendedTypeState]
      [] c = "O" -> [p EXCEPT !.specClass = Spectral_DO, !.i = p.i + 1,
                            !.state = WDExtendedTypeState]
      [] c = "Q" -> [p EXCEPT !.specClass = Spectral_DQ, !.i = p.i + 1,
                            !.state = WDExtendedTypeState]
      [] c = "X" -> [p EXCEPT !.specClass = Spectral_DX, !.i = p.i + 1,
                            !.state = WDExtendedTypeState]
      [] c = "Z" -> [p EXCEPT !.specClass = Spectral_DZ, !.i = p.i + 1,
                            !.state = WDExtendedTypeState]
      [] OTHER   -> [p EXCEPT !.specClass = Spectral_D,
                              !.state = WDExtendedTypeState]

\* WDExtendedTypeState without the i++ on a suffix letter.
CaseWDExtendedTypeState_NoAdvance(p, c) ==
    IF c \in {"A", "B", "C", "O", "Q", "Z", "X", "V", "P", "H", "E"}
      THEN p
      ELSE [p EXCEPT !.state = WDSubclassState]

\* WDExtendedTypeState taking a suffix letter for a new type letter.
CaseWDExtendedTypeState_Retype(p, c) ==
    IF c \in {"A", "B", "C", "O", "Q", "Z", "X", "V", "P", "H", "E"}
      THEN [p EXCEPT !.i = p.i + 1,
                     !.specClass = IF c \in {"V", "P", "H", "E"}
                                     THEN p.specClass
                                     ELSE CaseWDTypeState(p, c).specClass]
      ELSE [p EXCEPT !.state = WDSubclassState]

CaseWDExtendedTypeState(p, c) ==
    IF c \in {"A", "B", "C", "O", "Q", "Z", "X", "V", "P", "H", "E"}
      THEN [p EXCEPT !.i = p.i + 1]
      ELSE [p EXCEPT !.state = WDSubclassState]

CaseWDSubclassState(p, c) ==
    IF c \in Digits
      THEN [p EXCEPT !.subclass = DigitValue(c), !.i = p.i + 1,
                     !.state = EndState]
      ELSE [p EXCEPT !.state = EndState]

CaseNeutronStarTypeState(p, c) ==
    CASE
         c = "N" -> [p EXCEPT !.specClass = Spectral_QN, !.i = p.i + 1,
                            !.state = NeutronStarExtendedTypeState]
      [] c = "P" -> [p EXCEPT !.specClass = Spectral_QP, !.i = p.i + 1,
                            !.state = NeutronStarExtendedTypeState]
      [] c = "M" -> [p EXCEPT !.specClass = Spectral_QM, !.i = p.i + 1,
                            !.state = NeutronStarExtendedTypeState]
      [] OTHER   -> [p EXCEPT !.specClass = Spectral_Q,
                              !.state = NeutronStarExtendedTypeState]

CaseNeutronStarExtendedTypeState(p, c) ==
    IF c \in {"P", "M", "N"}
      THEN [p EXCEPT !.i = p.i + 1]
      ELSE [p EXCEPT !.state = NeutronStarSubclassState]

CaseNeutronStarSubclassState(p, c) ==
    IF c \in Digits
      THEN [p EXCEPT !.subclass = DigitValue(c), !.i = p.i + 1,
                     !.state = EndState]
      ELSE [p EXCEPT !.state = EndState]

\* default: assert(0); state = EndState (NormalStarState has no case).
CaseDefault(p, c) == [p EXCEPT !.state = EndState]

\* One iteration of the while loop: the switch on the state.
ParseSwitch(p, c) ==
    CASE p.state = BeginState -> CaseBeginState(p, c)
      [] p.state = WolfRayetTypeState -> CaseWolfRayetTypeState(p, c)
      [] p.state = SubdwarfPrefixState -> CaseSubdwarfPrefixState(p, c)
      [] p.state = NormalStarClassState -> CaseNormalStarClassState(p, c)
      [] p.state = NormalStarSubclassState ->
           CaseNormalStarSubclassState(p, c)
      [] p.state = NormalStarSubclassDecimalState ->
           CaseNormalStarSubclassDecimalState(p, c)
      [] p.state = NormalStarSubclassFinalState ->
           CaseNormalStarSubclassFinalState(p, c)
      [] p.state = LumClassBeginState -> CaseLumClassBeginState(p, c)
      [] p.state = LumClassIState -> CaseLumClassIState(p, c)
      [] p.state = LumClassIIState -> CaseLumClassIIState(p, c)
      [] p.state = LumClassIdashState -> CaseLumClassIdashState(p, c)
      [] p.state = LumClassIaState -> CaseLumClassIaState(p, c)
      [] p.state = LumClassVState -> CaseLumClassVState(p, c)
      [] p.state = WDTypeState -> CaseWDTypeState(p, c)
      [] p.state = WDExtendedTypeState -> CaseWDExtendedTypeState(p, c)
      [] p.state = WDSubclassState -> CaseWDSubclassState(p, c)
      [] p.state = NeutronStarTypeState -> CaseNeutronStarTypeState(p, c)
      [] p.state = NeutronStarExtendedTypeState ->
           CaseNeutronStarExtendedTypeState(p, c)
      [] p.state = NeutronStarSubclassState ->
           CaseNeutronStarSubclassState(p, c)
      [] OTHER -> CaseDefault(p, c)

(***************************************************************************)
(* Bounds of the model.                                                    *)
(***************************************************************************)
\* Longest input string drawn over CoreAlphabet.
MaxCoreLen == 3

\* One character for every branch that changes the parser's route.
CoreAlphabet ==
    {"s", "d", "X", "D", "Q", "A", "N", "G", "W", "5", "I", "V", "a", "-",
     "."}

StringsUpTo(chars, n) == UNION {[1 .. k -> chars] : k \in 0 .. n}

\* Every string of one or of two characters, NUL included.
ShortInputs ==
    {<<a>> : a \in Alphabet \cup {NUL}}
      \cup {<<a, b>> : a \in Alphabet \cup {NUL}, b \in Alphabet \cup {NUL}}

\* Luminosity texts as catalogues write them after the subclass.
LumTexts ==
    {<<"I", "a", "0">>, <<"I", "a">>, <<"I", "b">>, <<"I", "I">>,
     <<"I", "I", "I">>, <<"I", "V">>, <<"V">>, <<"V", "I">>,
     <<"I", "-", "a", "0">>, <<"I", "-", "a">>, <<"I", "-", "b">>}

OptionalDigit == {<< >>} \cup {<<d>> : d \in Digits}

\* A spectral letter and a subclass digit followed by a luminosity text.
ClassifiedInputs ==
    {<<SpectralLetters[s + 1], d>> \o t :
       s \in LetterClasses, d \in Digits, t \in LumTexts}

\* "sd", a spectral letter and an optional subclass digit.
SubdwarfInputs ==
    {<<"s", "d", SpectralLetters[s + 1]>> \o d :
       s \in LetterClasses, d \in OptionalDigit}

\* An optional "sd", a spectral letter, a subclass digit, a dot, a digit or
\* another character, and an optional luminosity text.
FractionalInputs ==
    {pre \o <<SpectralLetters[s + 1], d, ".", f>> \o t :
       pre \in {<< >>, <<"s", "d">>},
       s \in LetterClasses,
       d \in {"0", "1", "9"},
       f \in {"0", "5", "I", "V"},
       t \in {<< >>, <<"V">>, <<"I", "I", "I">>, <<"I", "a", "0">>}}

\* "W", an optional Wolf-Rayet type letter and an optional subclass digit.
WolfRayetInputs ==
    {<<"W">> \o t \o d :
       t \in {<< >>, <<"C">>, <<"N">>, <<"O">>}, d \in OptionalDigit}

\* "D", an optional type letter, an optional suffix letter and an optional
\* subclass digit.
WhiteDwarfInputs ==
    {<<"D">> \o t \o x \o d :
       t \in {<< >>} \cup {<<ch>> : ch \in {"A", "B", "C", "O", "Q", "X", "Z"}},
       x \in {<< >>} \cup {<<ch>> : ch \in {"A", "B", "C", "O", "Q", "Z", "X",
                                            "V", "P", "H", "E"}},
       d \in OptionalDigit}

\* "D", a type letter, two suffix letters and a subclass digit.
WhiteDwarfSuffixRuns ==
    {<<"D", t, x, y, d>> :
       t \in {"A", "B", "C", "O", "Q", "X", "Z"},
       x \in {"A", "B", "C", "O", "Q", "Z", "X", "V", "P", "H", "E"},
       y \in {"A", "B", "C", "O", "Q", "Z", "X", "V", "P", "H", "E"},
       d \in Digits}

\* "Q", an optional type letter, an optional suffix letter and an optional
\* subclass digit.
NeutronStarInputs ==
    {<<"Q">> \o t \o x \o d :
       t \in {<< >>, <<"N">>, <<"P">>, <<"M">>},
       x \in {<< >>, <<"N">>, <<"P">>, <<"M">>},
       d \in OptionalDigit}

\* The strings handed to parse() directly.
Inputs ==
    StringsUpTo(CoreAlphabet, MaxCoreLen)
      \cup ShortInputs
      \cup ClassifiedInputs
      \cup SubdwarfInputs
      \cup FractionalInputs
      \cup WolfRayetInputs
      \cup WhiteDwarfInputs
      \cup WhiteDwarfSuffixRuns
      \cup NeutronStarInputs

\* Every object the four-argument constructor builds from enumerators.
AllClasses ==
    {StellarClass(t, s, sub, lum) :
       t \in StarTypes, s \in 0 .. (Spectral_Count - 1),
       sub \in Subclasses, lum \in LumClasses}

\* The objects that satisfy the data model.
WellFormed(c) ==
    /\ c.starType \in StarTypes
    /\ c.specClass \in FamilyOf(c.starType)
    /\ c.subclass \in Subclasses
    /\ c.lumClass \in LumClasses
    /\ c.starType # NormalStar => c.lumClass = Lum_Unknown
    /\ c.starType = BlackHole => c.subclass = Subclass_Unknown

(***************************************************************************)
(* JPLEphemeris: numbers.                                                  *)
(*                                                                         *)
(* A double is modelled as a binary floating-point number with a           *)
(* significand of SigBits bits whose smallest step is 2^-FracBits: its     *)
(* value is an integer count of that step.  Every arithmetic operation     *)
(* rounds its exact result to the nearest representable value, ties to     *)
(* the even significand, as IEEE 754 arithmetic does.                      *)
(***************************************************************************)
SigBits == 5
FracBits == 3

\* 1.0 as a count of steps.
One == 2 ^ FracBits

Abs(x) == IF x < 0 THEN -x ELSE x

\* The weight of the last significand bit of a magnitude n: the least power
\* of two s with n < 2^SigBits * s.
RECURSIVE Ulp(_)
Ulp(n) == IF n < 2 ^ SigBits THEN 1 ELSE 2 * Ulp(n \div 2)

\* The double nearest to the exact quotient num / den (den > 0).
Round(num, den) ==
    LET a == Abs(num)
        s == Ulp(a \div den)
        m == a \div (den * s)
        r == a % (den * s)
        up == 2 * r > den * s \/ (2 * r = den * s /\ m % 2 = 1)
        mag == (IF up THEN m + 1 ELSE m) * s
    IN  IF num < 0 THEN -mag ELSE mag

FAdd(x, y) == Round(x + y, 1)
FSub(x, y) == Round(x - y, 1)
FMul(x, y) == Round(x * y, One)
FDiv(x, y) == IF y < 0 THEN Round(-(x * One), -y) ELSE Round(x * One, y)

\* (unsigned int) x and (int) x of a double x: the fraction is dropped.
Truncate(x) == IF x < 0 THEN -((-x) \div One) ELSE x \div One

\* Vector3d arithmetic, component by component.
VSub(v, w) == [i \in 1 .. 3 |-> FSub(v[i], w[i])]
VAdd(v, w) == [i \in 1 .. 3 |-> FAdd(v[i], w[i])]
VScale(v, k) == [i \in 1 .. 3 |-> FMul(v[i], k)]
Zero == <<0, 0, 0>>

(***************************************************************************)
(* JPLEphemeris: bytes.  A uint32_t in memory is its four bytes and a      *)
(* double its eight bytes, lowest address first; the host stores the       *)
(* least significant byte first.                                           *)
(***************************************************************************)
Reverse(b) == [i \in 1 .. Len(b) |-> b[Len(b) + 1 - i]]

bswap_32(u) == Reverse(u)
bswap_double(d) == Reverse(d)

\* The bytes of the unsigned integer n < 2^16.
Uint32(n) == <<n % 256, n \div 256, 0, 0>>

\* The low and the high half of a uint32_t.
Low16(u) == u[1] + 256 * u[2]
High16(u) == u[3] + 256 * u[4]

\* Unsigned comparisons of a uint32_t with a number below 2^16.
UintGreater(u, n) == High16(u) > 0 \/ Low16(u) > n
UintAtLeast(u, n) == High16(u) > 0 \/ Low16(u) >= n

\* The bit pattern of the double of x steps: a magnitude in the two low
\* bytes under a sign-and-exponent byte at the highest address.
DoubleBits(x) ==
    <<Abs(x) % 256, Abs(x) \div 256, 0, 0, 0, 0, 0,
      IF x < 0 THEN 192 ELSE 64>>

NaN == "NaN"

\* The value of a bit pattern; a pattern that is not the image of a double
\* of the model reads as some other number, here NaN.
DoubleValue(d) ==
    IF d[8] \in {64, 192} /\ \A i \in 3 .. 7 : d[i] = 0
    THEN (IF d[8] = 192 THEN -1 ELSE 1) * (d[1] + 256 * d[2])
    ELSE NaN

\* The number stored in a uint32_t, for the patterns below 2^31.
UintValue(u) == Low16(u) + 65536 * High16(u)

MAYBE_SWAP_DOUBLE(swapBytes, d) == IF swapBytes THEN bswap_double(d) ELSE d
MAYBE_SWAP_UINT32(swapBytes, u) == IF swapBytes THEN bswap_32(u) ELSE u

(***************************************************************************)
(* JPLEphemeris: the file.                                                 *)
(***************************************************************************)
MaxChebyshevCoeffs == 32
INPOP_DE_COMPATIBLE == 100
DE200 == 200

\* JPLEphemItem.  The items with stored coefficients come first; the
\* nutations are the last of them.
JPLEph_Mercury == 0
JPLEph_EarthMoonBary == 2
JPLEph_Moon == 9
JPLEph_Sun == 10
JPLEph_NItems == 12
JPLEph_SSB == 13
JPLEph_Earth == 14

\* sizeof(JPLEFileHeader): three labels of 84 bytes, 400 constant names
\* of 6 bytes, three doubles, a uint32_t, two doubles, twelve JPLECoeff of
\* three uint32_t each, a uint32_t and one more JPLECoeff, packed.
HeaderSize == 3 * 84 + 400 * 6 + 3 * 8 + 4 + 2 * 8 + JPLEph_NItems * 12 + 4 + 12

JPLECoeff(offset, nCoeffs, nGranules) ==
    [offset |-> offset, nCoeffs |-> nCoeffs, nGranules |-> nGranules]

\* The number of doubles the writer of a file puts in one record: the two
\* dates and the coefficients of every item.
RecordWidth(c) ==
    LET RECURSIVE Sum(_)
        Sum(n) ==
            IF n = 0 THEN 0
            ELSE Sum(n - 1)
                   + c.coeffInfo[n - 1].nCoeffs * c.coeffInfo[n - 1].nGranules
                       * (IF n = JPLEph_NItems THEN 2 ELSE 3)
    IN  Sum(JPLEph_NItems)
          + c.librationCoeffInfo.nCoeffs * c.librationCoeffInfo.nGranules * 3
          + 2

\* A file is what its writer meant to store (content), the byte order the
\* writer used, and the number of bytes that reached the stream.
\* The bytes of a stored number, in the order the writer used.
Stored(f, bytes) == IF f.reversed THEN Reverse(bytes) ELSE bytes

\* The double the writer stored as the k-th double of the file, k counted
\* from the first byte: a record is recordSize doubles wide, record r
\* holds its two dates and then its coefficients, and the first
\* coefficient record follows the header record and the constants record.
DoubleWritten(f, k) ==
    LET c == f.content
        w == c.recordSize
        r == (k \div w) - 2
        j == k % w
    IN  IF j = 0 THEN FAdd(c.startDate, FMul(r * One, c.daysPerInterval))
        ELSE IF j = 1
          THEN FAdd(c.startDate, FMul((r + 1) * One, c.daysPerInterval))
        ELSE c.data[(((j - 2) + 5 * r) % Len(c.data)) + 1]

\* The header as in.read() leaves it in memory.  The labels, the constant
\* names and nConstants are never looked at.
FileHeader(f) ==
    LET c == f.content
        coeff(e) ==
            JPLECoeff(Stored(f, Uint32(e.offset)),
                      Stored(f, Uint32(e.nCoeffs)),
                      Stored(f, Uint32(e.nGranules)))
    IN  [startDate |-> Stored(f, DoubleBits(c.startDate)),
         endDate |-> Stored(f, DoubleBits(c.endDate)),
         daysPerInterval |-> Stored(f, DoubleBits(c.daysPerInterval)),
         au |-> Stored(f, DoubleBits(c.au)),
         earthMoonMassRatio |-> Stored(f, DoubleBits(c.earthMoonMassRatio)),
         coeffInfo |-> [i \in 0 .. JPLEph_NItems - 1 |-> coeff(c.coeffInfo[i])],
         deNum |-> Stored(f, Uint32(c.deNum)),
         librationCoeffInfo |-> coeff(c.librationCoeffInfo)]

\* An istream: the read position and the value of good().
\* in.read(n): n bytes or a failure.
StreamRead(f, in, n) ==
    IF in.good /\ in.pos + n <= f.size
    THEN [pos |-> in.pos + n, good |-> TRUE]
    ELSE [pos |-> in.pos, good |-> FALSE]

\* in.ignore(n): nothing for a count that is not positive, n bytes, or the
\* end of the file.
StreamIgnore(f, in, n) ==
    IF ~in.good \/ n <= 0 THEN in
    ELSE IF in.pos + n <= f.size THEN [pos |-> in.pos + n, good |-> TRUE]
    ELSE [pos |-> f.size, good |-> FALSE]

\* readDouble(in, swap) at a position from which eight bytes can be read.
readDouble(f, pos, swap) ==
    LET d == Stored(f, DoubleBits(DoubleWritten(f, pos \div 8)))
    IN  DoubleValue(IF swap THEN bswap_double(d) ELSE d)

\* readUint(in, swap) of the record size that follows an INPOP header.
readUint(f, swap) ==
    LET u == Stored(f, Uint32(f.content.recordSize))
    IN  UintValue(IF swap THEN bswap_32(u) ELSE u)

(***************************************************************************)
(* JPLEphemeris::load.                                                     *)
(***************************************************************************)
\* The null pointer, the object with no member.
Null == [pointer |-> "nullptr"]

\* std::vector and arrays are functions on 0 .. size - 1.
Size(v) == Cardinality(DOMAIN v)

\* What load() hands back: the returned pointer, whether a JPLEphemeris
\* it allocated is left on the heap with no owner, and the number of
\* coefficient arrays that "delete eph" destroyed on the way out.
Returned(e, leaked, arrays) == [eph |-> e, leaked |-> leaked, arrays |-> arrays]

\* JPLEphRecord::~JPLEphRecord applies "delete" to an array obtained from
\* "new double[]", which is undefined: the memory is released, or the
\* allocator's checks stop the program.
DestroyOutcomes(arrays) ==
    IF arrays = 0 THEN {"released"} ELSE {"released", "aborted"}

\* The byte-order test on the DE number of the header.
ByteOrder_StrictDE(deNum) ==
    LET deNum2 == bswap_32(deNum)
    IN  IF deNum = Uint32(INPOP_DE_COMPATIBLE)
          THEN [known |-> TRUE, swapBytes |-> FALSE]
        ELSE IF deNum2 = Uint32(INPOP_DE_COMPATIBLE)
          THEN [known |-> TRUE, swapBytes |-> TRUE]
        ELSE IF UintGreater(deNum, 2 ^ 15) /\ UintGreater(deNum2, DE200)
          THEN [known |-> TRUE, swapBytes |-> TRUE]
        ELSE IF ~UintGreater(deNum, 2 ^ 15) /\ UintAtLeast(deNum, DE200)
          THEN [known |-> TRUE, swapBytes |-> FALSE]
        ELSE [known |-> FALSE, swapBytes |-> FALSE]

ByteOrder(deNum) ==
    LET deNum2 == bswap_32(deNum)
    IN  IF deNum = Uint32(INPOP_DE_COMPATIBLE)
          THEN [known |-> TRUE, swapBytes |-> FALSE]
        ELSE IF deNum2 = Uint32(INPOP_DE_COMPATIBLE)
          THEN [known |-> TRUE, swapBytes |-> TRUE]
        ELSE IF UintGreater(deNum, 2 ^ 15) /\ UintAtLeast(deNum2, DE200)
          THEN [known |-> TRUE, swapBytes |-> TRUE]
        ELSE IF ~UintGreater(deNum, 2 ^ 15) /\ UintAtLeast(deNum, DE200)
          THEN [known |-> TRUE, swapBytes |-> FALSE]
        ELSE [known |-> FALSE, swapBytes |-> FALSE]

\* The new JPLEphemeris with the fields taken from the header; no record
\* is read yet.  No field is compared with a limit.
HeaderFields(fh, swapBytes) ==
    LET uint(u) == UintValue(MAYBE_SWAP_UINT32(swapBytes, u))
        double(d) == DoubleValue(MAYBE_SWAP_DOUBLE(swapBytes, d))
        info == [i \in 0 .. JPLEph_NItems - 1 |->
                   JPLECoeff(uint(fh.coeffInfo[i].offset) - 3,
                             uint(fh.coeffInfo[i].nCoeffs),
                             uint(fh.coeffInfo[i].nGranules))]
        libration == JPLECoeff(uint(fh.librationCoeffInfo.offset),
                               uint(fh.librationCoeffInfo.nCoeffs),
                               uint(fh.librationCoeffInfo.nGranules))
    IN  [swapBytes |-> swapBytes,
         DENum |-> uint(fh.deNum),
         startDate |-> double(fh.startDate),
         endDate |-> double(fh.endDate),
         daysPerInterval |-> double(fh.daysPerInterval),
         au |-> double(fh.au),
         earthMoonMassRatio |-> double(fh.earthMoonMassRatio),
         coeffInfo |-> info,
         librationCoeffInfo |-> libration,
         recordSize |->
             RecordWidth([coeffInfo |-> info, librationCoeffInfo |-> libration]),
         records |-> << >>]

\* The rest of the header record and the constants record are skipped;
\* an INPOP file states its record size after the header.  A record size
\* that could not be read is never used: the stream has failed.
SkipToRecords(f, e, in) ==
    IF e.DENum = INPOP_DE_COMPATIBLE
    THEN LET in1 == StreamRead(f, in, 4)
             recordSize == readUint(f, e.swapBytes)
             in2 == StreamIgnore(f, in1, recordSize * 8 - HeaderSize - 4)
         IN  [recordSize |-> recordSize,
              in |-> StreamIgnore(f, in2, recordSize * 8)]
    ELSE LET in2 == StreamIgnore(f, in, e.recordSize * 8 - HeaderSize)
         IN  [recordSize |-> e.recordSize,
              in |-> StreamIgnore(f, in2, e.recordSize * 8)]

\* One record read at the stream position pos.
ReadRecord(f, e, pos) ==
    [t0 |-> readDouble(f, pos, e.swapBytes),
     t1 |-> readDouble(f, pos + 8, e.swapBytes),
     coeffs |-> [j \in 0 .. e.recordSize - 3 |->
                   readDouble(f, pos + 8 * (j + 2), e.swapBytes)]]

\* The record loop: nRecords records, each followed by a test of the
\* stream; a failure deletes the ephemeris, with the arrays of the
\* records read in full and of the record that failed.
ReadRecords(f, e, in) ==
    LET nRecords ==
            Truncate(FDiv(FSub(e.endDate, e.startDate), e.daysPerInterval))
        complete ==
            Cardinality({n \in 1 .. nRecords :
                           in.pos + n * e.recordSize * 8 <= f.size})
    IN  IF complete = nRecords
        THEN Returned([e EXCEPT !.records =
                         [i \in 0 .. nRecords - 1 |->
                            ReadRecord(f, e, in.pos + i * e.recordSize * 8)]],
                      FALSE, 0)
        ELSE Returned(Null, FALSE, complete + 1)

load(f) ==
    LET in == StreamRead(f, [pos |-> 0, good |-> TRUE], HeaderSize)
        fh == FileHeader(f)
        order == ByteOrder(fh.deNum)
        e == HeaderFields(fh, order.swapBytes)
        skipped == SkipToRecords(f, e, in)
    IN  IF ~in.good THEN Returned(Null, FALSE, 0)
        ELSE IF ~order.known THEN Returned(Null, FALSE, 0)
        ELSE IF ~skipped.in.good THEN Returned(Null, FALSE, 0)
        ELSE ReadRecords(f, [e EXCEPT !.recordSize = skipped.recordSize],
                         skipped.in)

(***************************************************************************)
(* JPLEphemeris::getPlanetPosition.                                        *)
(*                                                                         *)
(* A call has a set of possible outcomes.  An outcome is the object after  *)
(* the call, the vector returned, the records the call dereferenced and    *)
(* what went wrong, if anything: a failed assert() ends the program in a   *)
(* build that keeps assertions, an access outside an array can return      *)
(* anything, and a vector of NaN is no position.  The vector of an         *)
(* outcome that is aborted or not a number has no meaning.                 *)
(***************************************************************************)
NoFault == "none"
AssertFailed == "assert"
RecordOutOfRange == "records[recNo] out of range"
CoeffOutOfRange == "coeffs[] out of range"
ArrayOverrun == "cc[] overrun"
NotANumber == "NaN"

\* The vectors an undefined read may produce.
AnyPosition == {Zero, <<One, One, One>>}

\* getPlanetPosition is a const member function: no statement of it
\* assigns to a member.
AfterCall_ClampStored(this, tjd) == [this EXCEPT !.startDate = tjd]

AfterCall(this, tjd) == this

Outcome(this, tjd, pos, reads, fault) ==
    [this |-> AfterCall(this, tjd), pos |-> pos, reads |-> reads,
     fault |-> fault]

\* The loop over j >= 2 of the evaluation of one component: cc1 and cc2
\* are cc[j - 1] and cc[j - 2].
RECURSIVE ChebyshevTerms(_, _, _, _, _, _, _, _)
ChebyshevTerms(coeffs, first, nCoeffs, u, j, sum, cc1, cc2) ==
    IF j >= nCoeffs THEN sum
    ELSE LET cc == FSub(FMul(FMul(2 * One, u), cc1), cc2)
         IN  ChebyshevTerms(coeffs, first, nCoeffs, u, j + 1,
                            FAdd(sum, FMul(coeffs[first + j], cc)), cc, cc1)

\* sum[i] for the component whose coefficients start at coeffs[first].
ChebyshevSum(coeffs, first, nCoeffs, u) ==
    ChebyshevTerms(coeffs, first, nCoeffs, u, 2,
                   FAdd(coeffs[first], FMul(coeffs[first + 1], u)), u, One)

\* granule = (int) ((tjd - rec->t0) / daysPerGranule) in record recNo.
Granule(this, planet, tjd, recNo) ==
    LET daysPerGranule ==
            FDiv(this.daysPerInterval,
                 Round(this.coeffInfo[planet].nGranules * One, 1))
    IN  Truncate(FDiv(FSub(tjd, this.records[recNo].t0), daysPerGranule))

\* The interpolation in record rec, once the assertions are passed.
Evaluate(this, planet, tjd, recNo, given_tjd) ==
    LET rec == this.records[recNo]
        info == this.coeffInfo[planet]
        wholeInterval == info.nGranules = -1
        daysPerGranule ==
            FDiv(this.daysPerInterval, Round(info.nGranules * One, 1))
        granule == Granule(this, planet, tjd, recNo)
        granuleStartDate ==
            FAdd(rec.t0, FMul(daysPerGranule, Round(granule * One, 1)))
        first ==
            IF wholeInterval THEN info.offset
            ELSE info.offset + granule * info.nCoeffs * 3
        u ==
            IF wholeInterval
            THEN FSub(FDiv(FMul(2 * One, FSub(tjd, rec.t0)),
                           this.daysPerInterval), One)
            ELSE FSub(FDiv(FMul(2 * One, FSub(tjd, granuleStartDate)),
                           daysPerGranule), One)
        used ==
            {first + i * info.nCoeffs + j :
               i \in 0 .. 2,
               j \in 0 .. (IF info.nCoeffs > 2 THEN info.nCoeffs - 1 ELSE 1)}
    IN  IF used \subseteq DOMAIN rec.coeffs
        THEN {Outcome(this, given_tjd,
                      [i \in 1 .. 3 |->
                         ChebyshevSum(rec.coeffs,
                                      first + (i - 1) * info.nCoeffs,
                                      info.nCoeffs, u)],
                      {recNo}, NoFault)}
        ELSE {Outcome(this, given_tjd, v, {recNo}, CoeffOutOfRange) :
                v \in AnyPosition}

\* Clamp time to [ startDate, endDate ]
ClampedDate(this, given_tjd) ==
    IF given_tjd < this.startDate THEN this.startDate
    ELSE IF given_tjd > this.endDate THEN this.endDate
    ELSE given_tjd

\* recNo, kept below records.size().
RecordNumber(this, tjd) ==
    LET index ==
            Truncate(FDiv(FSub(tjd, this.startDate), this.daysPerInterval))
    IN  IF index >= Size(this.records) THEN Size(this.records) - 1
        ELSE index

\* The position of an item with stored coefficients.  An unsigned int
\* that wrapped below zero is written as the negative number with the
\* same 32 bits.
Interpolate(this, planet, given_tjd) ==
    LET tjd == ClampedDate(this, given_tjd)
        recNo == RecordNumber(this, tjd)
        info == this.coeffInfo[planet]
    IN  IF recNo \notin DOMAIN this.records
        THEN {Outcome(this, given_tjd, v, {recNo}, RecordOutOfRange) :
                v \in AnyPosition}
        ELSE IF info.nGranules >= 1 /\ info.nGranules <= 32
                  /\ info.nCoeffs <= MaxChebyshevCoeffs
        THEN Evaluate(this, planet, tjd, recNo, given_tjd)
        \* An assertion fails: the program stops there, or, built
        \* with NDEBUG, carries on.
        ELSE {Outcome(this, given_tjd, Zero, {recNo}, AssertFailed)}
               \cup
             (IF info.nCoeffs > MaxChebyshevCoeffs
              THEN {Outcome(this, given_tjd, v, {recNo}, ArrayOverrun) :
                      v \in AnyPosition}
              ELSE IF info.nGranules = 0
              \* daysPerGranule is infinite and granuleStartDate is
              \* t0 + infinity * 0.
              THEN {Outcome(this, given_tjd, Zero, {recNo}, NotANumber)}
              ELSE Evaluate(this, planet, tjd, recNo, given_tjd))

\* The Earth from the Earth-Moon barycenter and the geocentric Moon.
EarthPosition_MassRatio(this, embPos, moonPos) ==
    VSub(embPos,
         VScale(moonPos, FDiv(One, this.earthMoonMassRatio)))

EarthPosition(this, embPos, moonPos) ==
    VSub(embPos,
         VScale(moonPos, FDiv(One, FAdd(this.earthMoonMassRatio, One))))

\* The two calls made for the Earth and the vector built from them.
EarthOutcomes(this, tjd) ==
    {[this |-> AfterCall(this, tjd),
      pos |->
          IF {e.fault, m.fault} \cap {AssertFailed, NotANumber} # {}
          THEN Zero
          ELSE EarthPosition(this, e.pos, m.pos),
      reads |-> e.reads \cup m.reads,
      fault |-> IF e.fault # NoFault THEN e.fault ELSE m.fault] :
       e \in Interpolate(this, JPLEph_EarthMoonBary, tjd),
       m \in Interpolate(this, JPLEph_Moon, tjd)}

\* The origin handed out only after the record of the date is found.
getPlanetPosition_OriginAfterLookup(this, planet, tjd) ==
    IF planet = JPLEph_Earth THEN EarthOutcomes(this, tjd)
    ELSE IF planet = JPLEph_SSB
    THEN {[o EXCEPT !.pos = Zero] : o \in Interpolate(this, JPLEph_Sun, tjd)}
    ELSE Interpolate(this, planet, tjd)

getPlanetPosition(this, planet, tjd) ==
    IF planet = JPLEph_SSB
    THEN {Outcome(this, tjd, Zero, {}, NoFault)}
    ELSE IF planet = JPLEph_Earth THEN EarthOutcomes(this, tjd)
    ELSE Interpolate(this, planet, tjd)

(***************************************************************************)
(* The ephemeris files given to load().                                    *)
(***************************************************************************)
\* The most whole intervals a file covers.
MaxIntervals == 2

\* coeffInfo and librationCoeffInfo as a writer lays them out: the items
\* follow one another in the record after the two dates, the first at the
\* one-based offset 3, and shape[i] is <<nCoeffs, nGranules>> of item i.
Layout(shape) ==
    LET width(i) ==
            shape[i][1] * shape[i][2] * (IF i = JPLEph_NItems - 1 THEN 2 ELSE 3)
        RECURSIVE offset(_)
        offset(i) == IF i = 0 THEN 3 ELSE offset(i - 1) + width(i - 1)
    IN  [coeffInfo |->
             [i \in 0 .. JPLEph_NItems - 1 |->
                JPLECoeff(offset(i), shape[i][1], shape[i][2])],
         librationCoeffInfo |->
             JPLECoeff(offset(JPLEph_NItems), shape[JPLEph_NItems][1],
                       shape[JPLEph_NItems][2])]

\* Three coefficients in two granules for every body, the nutations and
\* the librations as one series each.
StandardShape ==
    [i \in 0 .. JPLEph_NItems |->
       IF i = JPLEph_NItems - 1 THEN <<2, 1>>
       ELSE IF i = JPLEph_NItems THEN <<10, 6>>
       ELSE <<3, 2>>]

\* The standard layout, a layout whose Moon has no granule and one
\* whose Mercury has more coefficients than MaxChebyshevCoeffs.
Shapes ==
    {StandardShape,
     [StandardShape EXCEPT ![JPLEph_Moon] = <<3, 0>>],
     [StandardShape EXCEPT ![JPLEph_Mercury] = <<MaxChebyshevCoeffs + 1, 1>>]}

\* The coefficients of a file repeat this sequence of doubles.
CoefficientData == <<62, 4, 0, 8, 3, 40, 1, 16, 5, 30, 2>>

\* A file that starts at day 2.0 with intervals of 2.0 days and ends
\* after the given number of half intervals; the mass ratio is 3.0.
Content(deNum, shape, halves) ==
    LET layout == Layout(shape)
    IN  [deNum |-> deNum,
         startDate |-> 2 * One,
         endDate |-> 2 * One + halves * One,
         daysPerInterval |-> 2 * One,
         au |-> 5 * One,
         earthMoonMassRatio |-> 3 * One,
         coeffInfo |-> layout.coeffInfo,
         librationCoeffInfo |-> layout.librationCoeffInfo,
         recordSize |-> RecordWidth(layout),
         data |-> CoefficientData]

\* DE numbers on both sides of every limit of the byte-order test.  A
\* number above 2^15 written in host order is left out: load() takes
\* such a file for a byte-swapped one.
DENumbers == {0, 99, INPOP_DE_COMPATIBLE, 101, 199, DE200, 405, 2 ^ 15}

Contents ==
    {Content(d, StandardShape, 2 * MaxIntervals) : d \in DENumbers}
      \cup {Content(405, s, h) : s \in Shapes, h \in 0 .. 2 * MaxIntervals}

\* The length of the whole file, and the lengths at which a stream can
\* break off: inside and at the end of the header, of the constants
\* record and of the last record.
FullSize(c) ==
    (2 + Truncate(FDiv(FSub(c.endDate, c.startDate), c.daysPerInterval)))
      * RecordWidth(c) * 8

Sizes(c) ==
    {0, HeaderSize - 1, HeaderSize, 2 * RecordWidth(c) * 8 - 1,
     2 * RecordWidth(c) * 8, FullSize(c) - 1, FullSize(c)}

Files ==
    UNION {{[content |-> c, reversed |-> r, size |-> n] :
              r \in BOOLEAN, n \in Sizes(c)} : c \in Contents}

\* The callers of getPlanetPosition, and the items and dates they ask for:
\* dates before, at and after both ends of the file and inside it.
Threads == {1, 2}

QueryItems(t) ==
    IF t = 1
    THEN {JPLEph_Mercury, JPLEph_EarthMoonBary, JPLEph_Moon, JPLEph_Earth,
          JPLEph_SSB}
    ELSE {JPLEph_Earth}

QueryDates(t) ==
    IF t = 1
    THEN {One, 2 * One, 22, 3 * One, 4 * One, 5 * One, 6 * One, 7 * One}
    ELSE {2 * One, 7 * One}

Idle == [stage |-> "idle"]


(***************************************************************************)
(* State.                                                                  *)
(*   given  the object as it was constructed                               *)
(*   sc     the StellarClass object operated on                            *)
(*   word   the 16-bit catalogue word last packed or read                  *)
(*   ok     the value returned by the last unpack                          *)
(*   text   the string last rendered or handed to parse()                  *)
(*   p      the locals of the running parse() call                         *)
(*   calls  the calls made so far, oldest first                            *)
(*   file   the stream given to JPLEphemeris::load                         *)
(*   io     whether load() has run, and whether it came back               *)
(*   eph    the pointer load() returned, with the object it points to      *)
(*   leaked whether load() left an object on the heap                      *)
(*   thread the getPlanetPosition call of each caller                      *)
(***************************************************************************)
VARIABLES given, sc, word, ok, text, p, calls, file, io, eph, leaked, thread

classVars == <<given, sc, word, ok, text, p, calls>>

ephVars == <<file, io, eph, leaked, thread>>

vars == <<given, sc, word, ok, text, p, calls, file, io, eph, leaked, thread>>

LastCall == IF calls = << >> THEN "new" ELSE calls[Len(calls)]

\* The objects of the data model, as catalogues and the parser build them.
Classes == {c \in AllClasses : WellFormed(c)}

Init ==
    /\ given \in Classes
    /\ sc = given
    /\ word = 0
    /\ ok = TRUE
    /\ text = << >>
    /\ p = ParseLocals
    /\ calls = << >>
    /\ file = Null
    /\ io = "closed"
    /\ eph = Null
    /\ leaked = FALSE
    /\ thread = [t \in Threads |-> Idle]

(***************************************************************************)
(* Catalogue encodings.                                                    *)
(***************************************************************************)
PackV1 ==
    /\ calls = << >>
    /\ word' = packV1(sc)
    /\ calls' = <<"packV1">>
    /\ UNCHANGED <<given, sc, ok, text, p>>
    /\ UNCHANGED ephVars

PackV2 ==
    /\ calls = << >>
    /\ word' = packV2(sc)
    /\ calls' = <<"packV2">>
    /\ UNCHANGED <<given, sc, ok, text, p>>
    /\ UNCHANGED ephVars

\* The packed word is decoded into a fresh object.
UnpackV1 ==
    /\ calls = <<"packV1">>
    /\ LET r == unpackV1(DefaultClass, word)
       IN  sc' = r.sc /\ ok' = r.ok
    /\ calls' = <<"packV1", "unpackV1">>
    /\ UNCHANGED <<given, word, text, p>>
    /\ UNCHANGED ephVars

UnpackV2 ==
    /\ calls = <<"packV2">>
    /\ LET r == unpackV2(DefaultClass, word)
       IN  sc' = r.sc /\ ok' = r.ok
    /\ calls' = <<"packV2", "unpackV2">>
    /\ UNCHANGED <<given, word, text, p>>
    /\ UNCHANGED ephVars

\* A star database hands any 16-bit word of a catalogue to unpack.
LoadV1 ==
    /\ calls = << >>
    /\ given = DefaultClass
    /\ \E st \in 0 .. (U16 - 1) :
         /\ word' = st
         /\ LET r == unpackV1(sc, st)
            IN  sc' = r.sc /\ ok' = r.ok
    /\ calls' = <<"unpackV1">>
    /\ UNCHANGED <<given, text, p>>
    /\ UNCHANGED ephVars

LoadV2 ==
    /\ calls = << >>
    /\ given = DefaultClass
    /\ \E st \in 0 .. (U16 - 1) :
         /\ word' = st
         /\ LET r == unpackV2(sc, st)
            IN  sc' = r.sc /\ ok' = r.ok
    /\ calls' = <<"unpackV2">>
    /\ UNCHANGED <<given, text, p>>
    /\ UNCHANGED ephVars

\* The objects handed to operator<: classes from the low end, the middle
\* and the high end of the family of every star type, with a known and an
\* unknown subclass and a known and an unknown luminosity class.
OrderSample ==
    {c \in Classes :
       /\ c.specClass \in
            {Spectral_O, Spectral_G, Spectral_M, Spectral_WC,
             Spectral_Unknown, Spectral_Y, Spectral_C, Spectral_WO,
             Spectral_DA, Spectral_DC, Spectral_D, Spectral_DX,
             Spectral_Q, Spectral_QN, Spectral_QM}
       /\ c.subclass \in {9, Subclass_Unknown}
       /\ c.lumClass \in {Lum_Ia0, Lum_Unknown}}

\* given < sc1 is evaluated; sc holds the right operand afterwards.
Compare ==
    /\ calls = << >>
    /\ given \in OrderSample
    /\ \E sc1 \in OrderSample :
         /\ sc' = sc1
         /\ ok' = LessThan(given, sc1)
    /\ calls' = <<"operator<">>
    /\ UNCHANGED <<given, word, text, p>>
    /\ UNCHANGED ephVars

Next ==
    PackV1 \/ PackV2 \/ UnpackV1 \/ UnpackV2 \/ LoadV1 \/ LoadV2 \/ Compare

Spec == Init /\ [][Next]_vars

(***************************************************************************)
(* Rendering and parsing.                                                  *)
(***************************************************************************)
Render ==
    /\ calls = << >>
    /\ text' \in Str(sc)
    /\ calls' = <<"str">>
    /\ UNCHANGED <<given, sc, word, ok, p>>
    /\ UNCHANGED ephVars

\* parse() is called on the rendered text or on a catalogue string.
ParseBegin ==
    /\ \/ calls = <<"str">> /\ text' = text
       \/ calls = << >> /\ given = DefaultClass /\ text' \in Inputs
    /\ p' = ParseLocals
    /\ calls' = Append(calls, "parse")
    /\ UNCHANGED <<given, sc, word, ok>>
    /\ UNCHANGED ephVars

Parsing == LastCall = "parse"

ParseStep ==
    /\ Parsing
    /\ p.state # EndState
    /\ p' = ParseSwitch(p, CurrentChar(text, p.i))
    /\ UNCHANGED <<given, sc, word, ok, text, calls>>
    /\ UNCHANGED ephVars

\* return {starType, specClass, subclass, lumClass}
ParseReturn ==
    /\ Parsing
    /\ p.state = EndState
    /\ sc' = StellarClass(p.starType, p.specClass, p.subclass, p.lumClass)
    /\ calls' = Append(calls, "return")
    /\ UNCHANGED <<given, word, ok, text, p>>
    /\ UNCHANGED ephVars

Parsed == LastCall = "return"

NextParse == Render \/ ParseBegin \/ ParseStep \/ ParseReturn

SpecParse == Init /\ [][NextParse]_vars

\* parse() is a sequential loop: a call that has started keeps running.
FairParse == SpecParse /\ WF_vars(ParseStep) /\ WF_vars(ParseReturn)

(***************************************************************************)
(* Loading an ephemeris and asking it for positions.                       *)
(***************************************************************************)
InitEph ==
    /\ given = DefaultClass
    /\ sc = given
    /\ word = 0
    /\ ok = TRUE
    /\ text = << >>
    /\ p = ParseLocals
    /\ calls = << >>
    /\ file \in Files
    /\ io = "open"
    /\ eph = Null
    /\ leaked = FALSE
    /\ thread = [t \in Threads |-> Idle]

\* eph = JPLEphemeris::load(in)
Load ==
    /\ io = "open"
    /\ \E destroyed \in DestroyOutcomes(load(file).arrays) :
         IF destroyed = "released"
         THEN /\ io' = "read"
              /\ eph' = load(file).eph
              /\ leaked' = load(file).leaked
         ELSE /\ io' = "aborted"
              /\ UNCHANGED <<eph, leaked>>
    /\ UNCHANGED <<file, thread>>
    /\ UNCHANGED classVars

Loaded == io = "read"

\* A failed assertion has ended the program.
Ended ==
    \E t \in Threads :
        thread[t].stage = "returned" /\ thread[t].fault = AssertFailed

\* A caller enters eph->getPlanetPosition(planet, tjd).
Call(t) ==
    /\ Loaded
    /\ eph # Null
    /\ ~Ended
    /\ thread[t].stage \in {"idle", "returned"}
    /\ \E planet \in QueryItems(t), tjd \in QueryDates(t) :
         thread' = [thread EXCEPT
                      ![t] = [stage |-> "called", planet |-> planet,
                              tjd |-> tjd]]
    /\ UNCHANGED <<file, io, eph, leaked>>
    /\ UNCHANGED classVars

\* The call returns with one of its outcomes.
Return(t) ==
    /\ thread[t].stage = "called"
    /\ ~Ended
    /\ \E out \in getPlanetPosition(eph, thread[t].planet, thread[t].tjd) :
         /\ eph' = out.this
         /\ thread' = [thread EXCEPT
                         ![t] = [stage |-> "returned",
                                 planet |-> thread[t].planet,
                                 tjd |-> thread[t].tjd,
                                 pos |-> out.pos,
                                 reads |-> out.reads,
                                 fault |-> out.fault]]
    /\ UNCHANGED <<file, io, leaked>>
    /\ UNCHANGED classVars

NextEph == Load \/ (\E t \in Threads : Call(t)) \/ (\E t \in Threads : Return(t))

SpecEph == InitEph /\ [][NextEph]_vars

(***************************************************************************)
(* Properties of the catalogue encodings (specification Spec).             *)
(***************************************************************************)
RoundTrippedV1 == calls = <<"packV1", "unpackV1">>

RoundTrippedV2 == calls = <<"packV2", "unpackV2">>

\* The star-type field of a V2 word, bits 15..13.
TypeBitsV2(st) == st \div 8192

\* C1: unpackV2(packV2(c)) succeeds and returns c, for every c that
\* satisfies the data model.
C1_RoundTripV2 ==
    (RoundTrippedV2 /\ WellFormed(given)) => (ok /\ sc = given)

\* C2: unpackV1(packV1(c)) succeeds and returns c, for every c of the data
\* model whose spectral class is not Spectral_Y (stated for the classes
\* that existed when the V1 format was current, i.e. WO set aside).
C2_RoundTripV1 ==
    (RoundTrippedV1 /\ WellFormed(given) /\ given.specClass # Spectral_Y
       /\ given.specClass # Spectral_WO)
      => (ok /\ sc = given)

\* C3: a NormalStar of class Y, whatever its subclass and luminosity class,
\* comes back from the V1 encoding with spectral class Unknown.
C3_YLostInV1 ==
    (RoundTrippedV1 /\ given.starType = NormalStar
       /\ given.specClass = Spectral_Y)
      => (ok /\ sc.specClass = Spectral_Unknown)

C3_Witness ==
    /\ RoundTrippedV1
    /\ given = StellarClass(NormalStar, Spectral_Y, 3, Lum_V)
    /\ word = 3126
    /\ sc = StellarClass(NormalStar, Spectral_Unknown, 3, Lum_V)

\* C9: whatever unpackV2 accepts satisfies the data model: the spectral
\* class belongs to the family of the star type, the subclass is 0..9 or
\* Unknown, the luminosity class is one of the nine defined values.
C9_UnpackV2WellFormed ==
    (LastCall = "unpackV2" /\ ok) =>
      /\ sc.starType \in StarTypes
      /\ sc.specClass \in FamilyOf(sc.starType)
      /\ sc.subclass \in Subclasses
      /\ sc.lumClass \in LumClasses

\* C9 as the decoder implements it: the family of a WhiteDwarf or a
\* NeutronStar is checked and the luminosity class of every non-normal star
\* is Unknown, while the fields of a NormalStar and the subclass of a
\* WhiteDwarf are the raw bit fields of the word.
C9_UnpackV2Checked ==
    (LastCall = "unpackV2" /\ ok) =>
      /\ sc.starType \in StarTypes
      /\ sc.starType = WhiteDwarf =>
           /\ sc.specClass \in WDClasses
           /\ sc.subclass = (word \div 16) % 16
           /\ sc.lumClass = Lum_Unknown
      /\ sc.starType = NeutronStar =>
           /\ sc.specClass \in NSClasses
           /\ sc.subclass \in 0 .. (NeutronStarClassCount - 1)
           /\ sc.lumClass = Lum_Unknown
      /\ sc.starType = BlackHole =>
           /\ sc.specClass = Spectral_Unknown
           /\ sc.subclass = Subclass_Unknown
           /\ sc.lumClass = Lum_Unknown
      /\ sc.starType = NormalStar =>
           /\ sc.specClass = (word \div 256) % 32
           /\ sc.subclass = (word \div 16) % 16
           /\ sc.lumClass = word % 16

\* A WhiteDwarf word (type bits 001, class field 7 = DX, subclass 5).
C9_Witness ==
    /\ calls = <<"unpackV2">>
    /\ word = 8192 + 7 * 256 + 5 * 16
    /\ ok
    /\ sc = StellarClass(WhiteDwarf, Spectral_DX, 5, Lum_Unknown)

\* C10: unpackV2 fails when bits 15..13 name no star type, and a BlackHole
\* word decodes to Unknown fields whatever its low 13 bits hold.
C10_UnpackV2Types ==
    LastCall = "unpackV2" =>
      /\ TypeBitsV2(word) \notin StarTypes => ~ok
      /\ TypeBitsV2(word) = BlackHole =>
           /\ ok
           /\ sc = StellarClass(BlackHole, Spectral_Unknown,
                      Subclass_Unknown, Lum_Unknown)

\* A BlackHole word with all 13 low bits set, and a rejected word.
C10_Witness ==
    /\ calls = <<"unpackV2">>
    /\ \/ /\ word = 3 * 8192 + 8191
          /\ ok
          /\ sc.starType = BlackHole
          /\ sc.specClass = Spectral_Unknown
       \/ /\ word = 5 * 8192 + 17
          /\ ~ok

Compared == LastCall = "operator<"

\* C11: operator< is a strict weak ordering (irreflexive, asymmetric,
\* transitive, incomparability transitive) and sc0 < sc1 holds exactly when
\* the V2 word of sc0 is below the V2 word of sc1.
C11_StrictWeakOrder ==
    Compared =>
      /\ ok <=> (packV2(given) < packV2(sc))
      /\ given = sc => ~ok
      /\ ok => ~LessThan(sc, given)
      /\ \A c \in OrderSample :
           /\ (ok /\ LessThan(sc, c)) => LessThan(given, c)
           /\ (~ok /\ ~LessThan(sc, given)
                 /\ ~LessThan(sc, c) /\ ~LessThan(c, sc))
                => (~LessThan(given, c) /\ ~LessThan(c, given))

\* A pair in order: G9 is below M9.
C11_Witness ==
    /\ Compared
    /\ given = StellarClass(NormalStar, Spectral_G, 9, Lum_Unknown)
    /\ sc = StellarClass(NormalStar, Spectral_M, 9, Lum_Unknown)
    /\ ok

\* C25: unpackV1 reads the star type from bits 15..12, where packV1 writes
\* it: a word whose bits 15..12 hold none of the four star types is
\* refused, and a word whose bits 15..12 hold a star type decodes to that
\* star type.
C25_StarTypeField ==
    LastCall = "unpackV1" =>
      LET t == Field(word, 12, 15)
      IN  /\ t \notin StarTypes => ~ok
          /\ t \in StarTypes => sc.starType = t

(***************************************************************************)
(* Properties of str() and parse() (specifications SpecParse, FairParse).  *)
(***************************************************************************)
\* The spectral class a letter names, the subclass a digit names and the
\* luminosity class a catalogue text names.
ClassOfLetter(ch) ==
    CHOOSE s \in LetterClasses : SpectralLetters[s + 1] = ch

LetterChars == {SpectralLetters[s + 1] : s \in LetterClasses}

CompactLumTexts ==
    {<<"I", "a", "0">>, <<"I", "a">>, <<"I", "b">>, <<"I", "I">>,
     <<"I", "I", "I">>, <<"I", "V">>, <<"V">>, <<"V", "I">>}

LumOfText(t) ==
    CASE t = <<"I", "a", "0">>  -> Lum_Ia0
      [] t = <<"I", "a">>       -> Lum_Ia
      [] t = <<"I", "b">>       -> Lum_Ib
      [] t = <<"I", "I">>       -> Lum_II
      [] t = <<"I", "I", "I">>  -> Lum_III
      [] t = <<"I", "V">>       -> Lum_IV
      [] t = <<"V">>            -> Lum_V
      [] t = <<"V", "I">>       -> Lum_VI
      [] OTHER                  -> Lum_Unknown

Rendered == Len(calls) >= 1 /\ calls[1] = "str"

\* C4: parse(c.str()) = c for every NormalStar c with a subclass 0..9, a
\* normal-star spectral class and any luminosity class (stated for the
\* classes that have a letter of their own in the table of str()).
C4_StrParseRoundTrip ==
    (Parsed /\ Rendered /\ given.starType = NormalStar
       /\ given.specClass \in LetterClasses
       /\ given.subclass \in 0 .. 9)
      => sc = given

\* C4 as the code has it: for the letter classes and WC the star type, the
\* spectral class and the subclass come back, and the luminosity class
\* comes back Unknown, because str() writes a space before the luminosity
\* text and the parser ends on the space.
C4_StrParseKeepsClass ==
    (Parsed /\ Rendered /\ given.starType = NormalStar
       /\ given.specClass \in LetterClasses \cup {Spectral_WC}
       /\ given.subclass \in 0 .. 9)
      => sc = [given EXCEPT !.lumClass = Lum_Unknown]

C4_Witness ==
    /\ Parsed
    /\ Rendered
    /\ given = StellarClass(NormalStar, Spectral_G, 2, Lum_V)
    /\ text = <<"G", "2", " ", "V">>
    /\ sc = StellarClass(NormalStar, Spectral_G, 2, Lum_Unknown)

\* C5: str() renders a BlackHole as "X", a WhiteDwarf as a letter of "WD"
\* and its subclass digit, a NeutronStar as "Q" and its subclass digit.
C5_StrPerStarType ==
    (LastCall = "str" /\ WellFormed(given) /\ given.subclass \in 0 .. 9
       /\ given.starType # NormalStar) =>
      /\ given.starType = WhiteDwarf =>
           /\ Len(text) = 2
           /\ text[1] \in {"W", "D"}
           /\ text[2] = DigitString[given.subclass + 1]
      /\ given.starType = NeutronStar =>
           text = <<"Q", DigitString[given.subclass + 1]>>
      /\ given.starType = BlackHole => text = <<"X">>

\* C6: every call of parse() reaches EndState and returns.
C6_ParseTerminates == Parsing ~> Parsed

\* A parse that took more than one trip round the loop has ended.
C6_Witness ==
    /\ Parsed
    /\ text = <<"D", "A", "5">>
    /\ p.state = EndState
    /\ p.i = 3

\* C7: a letter, a digit and a luminosity text written without separator
\* parse to that NormalStar class, subclass and luminosity class.
C7_CompactForm ==
    (Parsed /\ Len(text) >= 3 /\ text[1] \in LetterChars
       /\ text[2] \in Digits
       /\ SubSeq(text, 3, Len(text)) \in CompactLumTexts)
      => sc = StellarClass(NormalStar, ClassOfLetter(text[1]),
                  DigitValue(text[2]),
                  LumOfText(SubSeq(text, 3, Len(text))))

C7_Witness ==
    /\ Parsed
    /\ text = <<"G", "2", "V">>
    /\ sc = StellarClass(NormalStar, Spectral_G, 2, Lum_V)

\* C8: whatever parse() returns satisfies the data model.
C8_ParseWellFormed ==
    Parsed =>
      /\ sc.starType \in StarTypes
      /\ sc.subclass \in Subclasses
      /\ sc.lumClass \in LumClasses
      /\ sc.starType = BlackHole =>
           /\ sc.specClass = Spectral_Unknown
           /\ sc.subclass = Subclass_Unknown
           /\ sc.lumClass = Lum_Unknown
      /\ sc.starType \in {WhiteDwarf, NeutronStar} =>
           /\ sc.lumClass = Lum_Unknown
           /\ sc.specClass \in FamilyOf(sc.starType)
      /\ sc.starType = NormalStar => sc.specClass \in NormalClasses

\* A subdwarf: the only route on which the luminosity class is set
\* before the star type is known.
C8_Witness ==
    /\ Parsed
    /\ text = <<"s", "d", "G">>
    /\ sc = StellarClass(NormalStar, Spectral_G, Subclass_Unknown, Lum_VI)

\* The index of the first character of st at or after i that is not one of
\* the neutron-star suffix letters P, M, N.
RECURSIVE AfterSuffixRun(_, _)
AfterSuffixRun(st, i) ==
    IF i <= Len(st) /\ st[i] \in {"P", "M", "N"}
    THEN AfterSuffixRun(st, i + 1)
    ELSE i

NeutronStarTypeOf(c) ==
    CASE c = "N" -> Spectral_QN
      [] c = "P" -> Spectral_QP
      [] c = "M" -> Spectral_QM
      [] OTHER -> Spectral_Q

\* C19: a string that begins with "QN", "QP" or "QM" parses to a neutron
\* star of class QN, QP or QM, a digit after the run of suffix letters is
\* its subclass, and "Q" followed by a digit parses to class Q with that
\* subclass.
C19_NeutronStarParse ==
    (Parsed /\ text \in NeutronStarInputs /\ Len(text) >= 2) =>
      LET typed == text[2] \in {"N", "P", "M"}
          d == AfterSuffixRun(text, IF typed THEN 3 ELSE 2)
      IN  /\ sc.starType = NeutronStar
          /\ typed => sc.specClass = NeutronStarTypeOf(text[2])
          /\ (typed /\ d <= Len(text) /\ text[d] \in Digits)
               => sc.subclass = DigitValue(text[d])
          /\ text[2] \in Digits
               => /\ sc.specClass = Spectral_Q
                  /\ sc.subclass = DigitValue(text[2])

\* C20: in a normal-star string the dashed luminosity texts "I-a0", "I-a"
\* and "I-b" parse to Lum_Ia0, Lum_Ia and Lum_Ib.
C20_DashedSupergiants ==
    (Parsed /\ text \in ClassifiedInputs) =>
      LET lum == SubSeq(text, 3, Len(text))
      IN  /\ lum = <<"I", "-", "a", "0">> => sc.lumClass = Lum_Ia0
          /\ lum = <<"I", "-", "a">> => sc.lumClass = Lum_Ia
          /\ lum = <<"I", "-", "b">> => sc.lumClass = Lum_Ib

\* C21: "sd", a normal-star spectral letter and an optional digit parse to
\* NormalStar with that spectral class, that subclass and luminosity class
\* Lum_VI; a string that starts with 's' not followed by 'd' ends parsing
\* with spectral class, subclass and luminosity class all Unknown.
C21_SubdwarfPrefix ==
    Parsed =>
      /\ text \in SubdwarfInputs =>
           sc = StellarClass(NormalStar, ClassOfLetter(text[3]),
                    IF Len(text) = 4 THEN DigitValue(text[4])
                                     ELSE Subclass_Unknown,
                    Lum_VI)
      /\ (Len(text) >= 1 /\ text[1] = "s"
            /\ (Len(text) >= 2 => text[2] # "d")) =>
           /\ sc.specClass = Spectral_Unknown
           /\ sc.subclass = Subclass_Unknown
           /\ sc.lumClass = Lum_Unknown

C21_Witness ==
    /\ Parsed
    /\ text = <<"s", "d", "M", "4">>
    /\ sc = StellarClass(NormalStar, Spectral_M, 4, Lum_VI)

\* The index of the first character of st at or after i that is not one of
\* the white-dwarf suffix letters.
RECURSIVE AfterWDSuffixRun(_, _)
AfterWDSuffixRun(st, i) ==
    IF i <= Len(st)
         /\ st[i] \in {"A", "B", "C", "O", "Q", "Z", "X", "V", "P", "H", "E"}
    THEN AfterWDSuffixRun(st, i + 1)
    ELSE i

WDTypeOf(c) ==
    CASE c = "A" -> Spectral_DA
      [] c = "B" -> Spectral_DB
      [] c = "C" -> Spectral_DC
      [] c = "O" -> Spectral_DO
      [] c = "Q" -> Spectral_DQ
      [] c = "X" -> Spectral_DX
      [] c = "Z" -> Spectral_DZ
      [] OTHER -> Spectral_D

\* C22: "D", one type letter of A B C O Q X Z, any run of the suffix
\* letters A B C O Q Z X V P H E and a digit d parse to WhiteDwarf with the
\* spectral class of the type letter, subclass d and luminosity class
\* Unknown; the suffix letters leave the spectral class alone.
C22_WhiteDwarfParse ==
    (Parsed /\ Len(text) >= 3 /\ text[1] = "D"
       /\ text[2] \in {"A", "B", "C", "O", "Q", "X", "Z"}
       /\ AfterWDSuffixRun(text, 3) = Len(text)
       /\ text[Len(text)] \in Digits)
      => sc = StellarClass(WhiteDwarf, WDTypeOf(text[2]),
                  DigitValue(text[Len(text)]), Lum_Unknown)

\* A type letter, two suffix letters that are type letters too, a digit.
C22_Witness ==
    /\ Parsed
    /\ text = <<"D", "Q", "Z", "A", "7">>
    /\ sc = StellarClass(WhiteDwarf, Spectral_DQ, 7, Lum_Unknown)

\* The number of characters of the "sd" prefix of st.
SubdwarfPrefixLen(st) ==
    IF Len(st) >= 2 /\ st[1] = "s" /\ st[2] = "d" THEN 2 ELSE 0

\* C23: for a normal-star string with subclass written d.f followed by a
\* luminosity text, parse keeps the digit d as the subclass, discards f and
\* parses the luminosity text; if the dot is followed by a non-digit,
\* parsing ends there with subclass d and the luminosity class as it was.
C23_FractionalSubclass ==
    (Parsed /\ text \in FractionalInputs) =>
      LET k == SubdwarfPrefixLen(text)
          lum == SubSeq(text, k + 5, Len(text))
          before == IF k = 2 THEN Lum_VI ELSE Lum_Unknown
      IN  /\ sc.starType = NormalStar
          /\ sc.specClass = ClassOfLetter(text[k + 1])
          /\ sc.subclass = DigitValue(text[k + 2])
          /\ (text[k + 4] \in Digits /\ lum \in CompactLumTexts)
               => sc.lumClass = LumOfText(lum)
          /\ text[k + 4] \notin Digits => sc.lumClass = before

\* "K1.5III"
C23_Witness ==
    /\ Parsed
    /\ text = <<"K", "1", ".", "5", "I", "I", "I">>
    /\ sc = StellarClass(NormalStar, Spectral_K, 1, Lum_III)

\* C24: during parse the input index never decreases from one step to the
\* next, each step examines exactly the character at the current index, or
\* the synthetic NUL when the index is at or past the end of the string,
\* and nothing is read once EndState is reached.
C24_NoBacktrack ==
    [][Parsing =>
         /\ p'.i >= p.i
         /\ p.state # EndState =>
              p' = ParseSwitch(p, IF p.i < Len(text) THEN text[p.i + 1]
                                                     ELSE NUL)
         /\ p.state = EndState => p' = p]_vars

\* "G5.": the character after the dot is the synthetic NUL, read at the
\* end of the string and consumed, which leaves the index past the end.
C24_Witness ==
    /\ Parsing
    /\ text = <<"G", "5", ".">>
    /\ p.state = EndState
    /\ p.i = 4

(***************************************************************************)
(* Properties of the ephemeris (specification SpecEph).                    *)
(***************************************************************************)
Queried(t) == thread[t].stage = "returned"

\* C12: the position of the solar system barycenter is (0, 0, 0) for every
\* date and every ephemeris, one without records included, and no record
\* is read for it.
C12_BarycenterIsOrigin ==
    \A t \in Threads :
        (Queried(t) /\ thread[t].planet = JPLEph_SSB) =>
          /\ thread[t].pos = Zero
          /\ thread[t].reads = {}
          /\ thread[t].fault = NoFault

\* The barycenter asked of an ephemeris that holds no record.
C12_Witness ==
    /\ Queried(1)
    /\ thread[1].planet = JPLEph_SSB
    /\ thread[1].tjd = 7 * One
    /\ Size(eph.records) = 0

\* The Earth-Moon barycenter and the Moon at the date of a finished call
\* for the Earth; each has one value when the call had no fault.
BarycenterAt(t) ==
    (CHOOSE o \in Interpolate(eph, JPLEph_EarthMoonBary, thread[t].tjd) : TRUE).pos

MoonAt(t) ==
    (CHOOSE o \in Interpolate(eph, JPLEph_Moon, thread[t].tjd) : TRUE).pos

MoonShare == FDiv(One, FAdd(eph.earthMoonMassRatio, One))

EarthQueried(t) ==
    /\ Queried(t)
    /\ thread[t].planet = JPLEph_Earth
    /\ thread[t].fault = NoFault

\* C13 as stated: Earth + Moon * (1 / (mu + 1)) is exactly the Earth-Moon
\* barycenter.
C13_EarthExact ==
    \A t \in Threads :
        EarthQueried(t) =>
          VAdd(thread[t].pos, VScale(MoonAt(t), MoonShare)) = BarycenterAt(t)

\* C13: the Earth is the barycenter minus Moon * (1 / (mu + 1)) as double
\* arithmetic evaluates it, and adding the Moon's share back gives the
\* barycenter to within the rounding of the subtraction and the addition:
\* 2^-SigBits of the two rounded results.
C13_EarthWithinRounding ==
    \A t \in Threads :
        EarthQueried(t) =>
          LET share == VScale(MoonAt(t), MoonShare)
              back == VAdd(thread[t].pos, share)
          IN  /\ thread[t].pos = VSub(BarycenterAt(t), share)
              /\ \A i \in 1 .. 3 :
                   Abs(back[i] - BarycenterAt(t)[i]) * 2 ^ SigBits
                     <= Abs(thread[t].pos[i]) + Abs(back[i])

\* An Earth whose sum with the Moon's share is not the barycenter.
C13_Witness ==
    /\ EarthQueried(1)
    /\ VAdd(thread[1].pos, VScale(MoonAt(1), MoonShare)) # BarycenterAt(1)

\* C14: the record a call looks at is one of the records of the ephemeris,
\* for every ephemeris load() returned.
C14_RecordInRange ==
    \A t \in Threads :
        Queried(t) =>
          /\ thread[t].reads \subseteq DOMAIN eph.records
          /\ thread[t].fault # RecordOutOfRange

\* C15: load() returns no ephemeris whose header gives an item more than
\* MaxChebyshevCoeffs coefficients or fewer than one granule.
C15_LoadVerifiesLimits ==
    (Loaded /\ eph # Null) =>
      \A i \in 0 .. JPLEph_NItems - 1 :
          /\ eph.coeffInfo[i].nCoeffs <= MaxChebyshevCoeffs
          /\ eph.coeffInfo[i].nGranules >= 1

\* The DE numbers a file is written with: 100 for INPOP, or 200 up to 2^15.
ValidDENumber(d) == d = INPOP_DE_COMPATIBLE \/ (DE200 <= d /\ d <= 2 ^ 15)

\* load() has returned and no position has been asked for yet.
JustLoaded == Loaded /\ \A t \in Threads : thread[t] = Idle

\* C16: a complete file with a valid DE number d that was written in
\* reversed byte order is accepted with swapBytes set and DENum = d, and
\* everything else decodes as from the same file in host order.
C16_ByteOrderSymmetric ==
    (JustLoaded /\ file.reversed /\ ValidDENumber(file.content.deNum)
       /\ file.size >= FullSize(file.content)) =>
      LET twin == load([file EXCEPT !.reversed = FALSE]).eph
      IN  /\ eph # Null
          /\ eph.swapBytes
          /\ eph.DENum = file.content.deNum
          /\ twin # Null
          /\ ~twin.swapBytes
          /\ [eph EXCEPT !.swapBytes = FALSE] = twin

\* DE200 in reversed byte order: the smallest DE number of the swapped rule.
C16_Witness ==
    /\ JustLoaded
    /\ file.reversed
    /\ file.content.deNum = DE200
    /\ eph # Null
    /\ Size(eph.records) = MaxIntervals

SameAsAlone(t) ==
    \E o \in getPlanetPosition(eph, thread[t].planet, thread[t].tjd) :
        /\ o.pos = thread[t].pos
        /\ o.reads = thread[t].reads
        /\ o.fault = thread[t].fault

\* C18: no call of getPlanetPosition changes a field of the ephemeris,
\* however the calls of the callers interleave, and each call returns
\* what it returns when made alone.
C18_QueryKeepsState ==
    /\ [][Loaded => eph' = eph]_vars
    /\ [](\A t \in Threads : Queried(t) => SameAsAlone(t))

\* Two calls in flight at once, both finished.
C18_Witness ==
    /\ Queried(1)
    /\ Queried(2)
    /\ thread[1].planet = JPLEph_Mercury
    /\ thread[2].planet = JPLEph_Earth
    /\ thread[1].fault = NoFault
    /\ thread[2].fault = NoFault

\* The records follow one another from startDate, each daysPerInterval
\* long.
Contiguous(e) ==
    \A k \in DOMAIN e.records :
        /\ e.records[k].t0 =
             FAdd(e.startDate, FMul(k * One, e.daysPerInterval))
        /\ e.records[k].t1 = FAdd(e.records[k].t0, e.daysPerInterval)

\* C26: for a loaded ephemeris with contiguous records, a stored body with
\* n >= 1 granules and any date, clamped to [startDate, endDate], the
\* granule index getPlanetPosition computes satisfies 0 <= granule < n, so
\* that the coefficients read are those of the body in the record chosen.
C26_GranuleInRange ==
    \A t \in Threads :
        (/\ Queried(t)
         /\ thread[t].planet \in 0 .. JPLEph_NItems - 1
         /\ Contiguous(eph)
         /\ eph.coeffInfo[thread[t].planet].nGranules >= 1
         /\ RecordNumber(eph, ClampedDate(eph, thread[t].tjd))
               \in DOMAIN eph.records) =>
          LET tjd == ClampedDate(eph, thread[t].tjd)
              granule ==
                  Granule(eph, thread[t].planet, tjd, RecordNumber(eph, tjd))
          IN  /\ 0 <= granule
              /\ granule < eph.coeffInfo[thread[t].planet].nGranules

====
